---- MODULE Spec2Model ----
(***************************************************************************)
(* A model of the two tutorial notebooks of the repository:                *)
(*   tutorials/basic_examples/Reaction_Optimization_Example.ipynb          *)
(*   tutorials/benchmarks/012-BNH.ipynb                                    *)
(* The notebooks are sequences of cells; every code cell is an action, the *)
(* notebook globals are the variables.  Real numbers are carried in fixed  *)
(* point (thousandths, "milli"), tables (pandas DataFrames) are sequences  *)
(* of row records, row k of the sequence being index k-1 of the frame.     *)
(***************************************************************************)
EXTENDS Integers, Sequences, FiniteSets, TLC

(***************************************************************************)
(* Bounds of the model.                                                    *)
(***************************************************************************)
\* largest candidates table handed to the simulator in SpecSim
MaxRows == 2
\* number of seeds numpy's generator may start from
NSeeds == 1
\* number of simulator calls made in one run of SpecSim
MaxCalls == 3
\* cap on the loop counter i of cell 42 (the code's own bound is 11)
MaxIter == 12
\* number of workflow runs triggered in one run of SpecCI
MaxRuns == 3
\* number of pull requests open against the repository
MaxPR == 2

(***************************************************************************)
(* Python values.                                                          *)
(***************************************************************************)
None == [type |-> "NoneType"]

Str(s) == [type |-> "str", value |-> s]

DataFrame(rows) == [type |-> "DataFrame", rows |-> rows]

\* Python truth value of an Optional[str]: None and "" are false
bool(x) == IF x.type = "NoneType" THEN FALSE ELSE x.value # ""

\* os.environ.get(name): the variable's value, None when it is not set.
\* The environment holds at most the one variable SMOKE_TEST: <<>> is unset.
os_environ_get(environ) == IF environ = <<>> THEN None ELSE Str(environ[1])

\* the states of the environment variable SMOKE_TEST the model runs under
Environments == {<<>>, <<"">>, <<"1">>, <<"0">>, <<"false">>}

(***************************************************************************)
(* Reaction notebook, cells 4-8: the domain.                               *)
(***************************************************************************)
temperature_feature == [key |-> "Temperature", lower_bound |-> 0, upper_bound |-> 60]

solvent_amount_feature == [key |-> "Solvent Volume", lower_bound |-> 20, upper_bound |-> 90]

solvent_type_feature == [key |-> "Solvent Type", categories |-> <<"MeOH", "THF", "Dioxane">>]

yield_feature == [key |-> "Yield"]

domain ==
  [inputs |-> [Temperature |-> temperature_feature,
               Solvent_Volume |-> solvent_amount_feature,
               Solvent_Type |-> solvent_type_feature],
   outputs |-> [Yield |-> yield_feature]]

(***************************************************************************)
(* Reaction notebook, cell 14: the toy reaction.                           *)
(***************************************************************************)
T0 == 25

T1 == 100

\* np.exp in thousandths, tabulated at the exponents (T1 + T) / T0 of the
\* temperatures 0, 30 and 60 the model draws: exp(4.0), exp(5.2), exp(6.4)
np_exp(num, den) ==
  CASE num * 100 = 400 * den -> 54598
    [] num * 100 = 520 * den -> 181272
    [] num * 100 = 640 * den -> 601845

e0 == np_exp(T1 + 0, T0)

e60 == np_exp(T1 + 60, T0)

de == e60 - e0

\* in tenths of a degree
boiling_points == [MeOH |-> 647, THF |-> 660, Dioxane |-> 1010]

\* mutant: the density of Dioxane entered in another unit
density_other_unit == [MeOH |-> 792, THF |-> 886, Dioxane |-> 1290]

\* in thousandths of kg/l
density == [MeOH |-> 792, THF |-> 886, Dioxane |-> 1030]

solvent_descriptors == [boiling_points |-> boiling_points, density |-> density]

\* calc_volume_fact in 1/9800: with n = V - 20 and x = n / 70,
\* 0.5 + (x - 0.75) * 0.1 + (x - 0.4)^2
\*   = (4900 + 7 * (2n - 105) + 2 * (n - 28)^2) / 9800, exactly
VfactDen == 9800

calc_volume_fact(V) ==
  LET n == V - 20
  IN  4900 + 7 * (2 * n - 105) + 2 * (n - 28) * (n - 28)

\* calc_Tfact of one temperature, in thousandths
calc_Tfact(T) ==
  LET x == np_exp(T1 + T, T0)
  IN  ((x - e0) * 1000) \div de

\* calc_rhofact of one solvent and its Tfact, in thousandths
calc_rhofact(solvent_type, Tfact) ==
  LET x == solvent_descriptors["density"][solvent_type]
  IN  ((1500 - x) * (Tfact + 500)) \div 2000

(***************************************************************************)
(* numpy's global generator: a seeded deterministic sequence of states.    *)
(***************************************************************************)
np_random_states == 8

np_random_next(s) == (5 * s + 3) % np_random_states

RECURSIVE np_random_after(_, _)
np_random_after(s, k) == IF k = 0 THEN s ELSE np_random_after(np_random_next(s), k - 1)

\* np.random.uniform(low, high) drawn in state s: a value of [low, high)
np_random_uniform(low, high, s) == low + ((high - low) * ((s \div 2) % 2)) \div 2

\* np.random.randint(low, high) drawn in state s: an integer of low .. high-1
np_random_randint(low, high, s) == low + (s % (high - low))

(***************************************************************************)
(* create_experiments, create_candidates, evaluate_experiments.            *)
(* Each takes the generator's state and returns the table together with    *)
(* the state the generator is left in.                                     *)
(***************************************************************************)
\* the yield of one row, in thousandths: y = A*Tfact + B*rhofact, then
\* y = 0.5*y + 0.5*y*Vfact
yield_of(A, B, T, V, solvent_type) ==
  LET Tfact == calc_Tfact(T)
      rhofact == calc_rhofact(solvent_type, Tfact)
      Vfact == calc_volume_fact(V)
      y == A * Tfact + B * rhofact
  IN  (y * VfactDen + y * Vfact) \div (2 * VfactDen)

\* mutant: the two continuous columns filled with each other's values
samples_row_swapped(T, V, y, solvent_type) ==
  [Temperature |-> V,
   Solvent_Volume |-> T,
   Yield |-> y,
   Solvent_Type |-> solvent_type,
   valid_Yield |-> 1]

\* one row of pd.DataFrame({Tf.key: T, Vf.key: V, yf.key: y, typef.key:
\* solvent_types, "valid_" + yf.key: np.ones(nsamples)})
samples_row(T, V, y, solvent_type) ==
  [Temperature |-> T,
   Solvent_Volume |-> V,
   Yield |-> y,
   Solvent_Type |-> solvent_type,
   valid_Yield |-> 1]

create_experiments(dom, nsamples, A, B, candidates, rng) ==
  LET Tf == dom.inputs.Temperature
      Vf == dom.inputs.Solvent_Volume
      typef == dom.inputs.Solvent_Type
      random == candidates.type = "NoneType"
      n == IF random THEN nsamples ELSE Len(candidates.rows)
      T == IF random
           THEN [j \in 1..n |-> np_random_uniform(Tf.lower_bound, Tf.upper_bound,
                                                  np_random_after(rng, j - 1))]
           ELSE [j \in 1..n |-> candidates.rows[j].Temperature]
      V == IF random
           THEN [j \in 1..n |-> np_random_uniform(Vf.lower_bound, Vf.upper_bound,
                                                  np_random_after(rng, n + j - 1))]
           ELSE [j \in 1..n |-> candidates.rows[j].Solvent_Volume]
      solvent_types ==
           IF random
           THEN [j \in 1..n |->
                   typef.categories[np_random_randint(0, 3, np_random_after(rng, 2 * n + j - 1)) + 1]]
           ELSE [j \in 1..n |-> candidates.rows[j].Solvent_Type]
      y == [j \in 1..n |-> yield_of(A, B, T[j], V[j], solvent_types[j])]
      samples == [j \in 1..n |-> samples_row(T[j], V[j], y[j], solvent_types[j])]
  IN  [samples |-> samples,
       rng |-> IF random THEN np_random_after(rng, 3 * n) ELSE rng]

\* experiments.drop(["Yield", "valid_Yield"], axis=1)
drop_outputs(rows) ==
  [j \in 1..Len(rows) |->
     [Temperature |-> rows[j].Temperature,
      Solvent_Volume |-> rows[j].Solvent_Volume,
      Solvent_Type |-> rows[j].Solvent_Type]]

\* mutant: the experiments handed on with their output columns
create_candidates_undropped(dom, nsamples, rng) ==
  LET r == create_experiments(dom, nsamples, 25, 90, None, rng)
  IN  [candidates |-> r.samples, rng |-> r.rng]

create_candidates(dom, nsamples, rng) ==
  LET r == create_experiments(dom, nsamples, 25, 90, None, rng)
  IN  [candidates |-> drop_outputs(r.samples), rng |-> r.rng]

\* mutant: the candidates are not handed on, the rows are drawn at random
evaluate_experiments_random(dom, candidates, rng) ==
  create_experiments(dom, Len(candidates), 25, 90, None, rng)

evaluate_experiments(dom, candidates, rng) ==
  create_experiments(dom, 100, 25, 90, DataFrame(candidates), rng)

(***************************************************************************)
(* 012-BNH.ipynb, cell 3: the metric handed to run(...).  An experiments   *)
(* table is its set of columns and its rows in index order; c1 is carried  *)
(* in tenths (25 is 250) and so is c2 (7.7 is 77).                         *)
(***************************************************************************)
\* compute_hypervolume(domain, experiments, ref_point) of bofire: the call,
\* as the arguments it receives
compute_hypervolume(dom, experiments, ref_point) ==
  [domain |-> dom, experiments |-> experiments, ref_point |-> ref_point]

\* experiments.loc[mask], mask a boolean for every row: the rows whose
\* boolean is true, in their order
RECURSIVE loc_rows(_, _, _)
loc_rows(rows, mask, k) ==
  IF k > Len(rows)
  THEN <<>>
  ELSE (IF mask[k] THEN <<rows[k]>> ELSE <<>>) \o loc_rows(rows, mask, k + 1)

loc(experiments, mask) ==
  [columns |-> experiments.columns, rows |-> loc_rows(experiments.rows, mask, 1)]

\* mutant: the bound on c1 taken strictly
hypervolume_strict(dom, experiments) ==
  IF "c1" \in experiments.columns
  THEN LET mask == [k \in 1..Len(experiments.rows) |->
                      (experiments.rows[k].c1 < 250) /\ (experiments.rows[k].c2 >= 77)]
       IN  compute_hypervolume(dom, loc(experiments, mask), [f1 |-> 140, f2 |-> 50])
  ELSE compute_hypervolume(dom, experiments, [f1 |-> 140, f2 |-> 50])

hypervolume(dom, experiments) ==
  IF "c1" \in experiments.columns
  THEN LET mask == [k \in 1..Len(experiments.rows) |->
                      (experiments.rows[k].c1 <= 250) /\ (experiments.rows[k].c2 >= 77)]
       IN  compute_hypervolume(dom, loc(experiments, mask), [f1 |-> 140, f2 |-> 50])
  ELSE compute_hypervolume(dom, experiments, [f1 |-> 140, f2 |-> 50])

(***************************************************************************)
(* State.                                                                  *)
(***************************************************************************)
VARIABLES
  environ,        \* the process environment: <<>> or <<value of SMOKE_TEST>>
  rng,            \* state of numpy's global generator
  \* --- the simulator called on its own (SpecSim)
  sim_input,      \* a candidates table
  sim_results,    \* each evaluate_experiments(domain, sim_input): the state
                  \* the generator was in, and the table returned
  sim_nsamples,   \* the nsamples of the last create_candidates(domain, nsamples)
  sim_candidates, \* what the last create_candidates returned
  sim_other,      \* the last evaluate_experiments of a create_candidates
                  \* table: that table, and the table returned
  sim_calls,      \* number of simulator calls made
  \* --- Reaction_Optimization_Example.ipynb
  pc,             \* the cell (or the statement of cell 42) to execute next
  SMOKE_TEST,     \* cell 1
  constructed,    \* which of domain, sobo_strategy, random_strategy exist
  candidates,     \* cells 15 and 28
  experiments,    \* cells 17 and 32
  sobo_experiments, \* sobo_strategy.experiments (<<>> while it is None)
  new_candidate,  \* cells 38 and 42
  new_experiment, \* cell 42
  i,              \* cell 42
  done,           \* cell 42
  exception,      \* "none", or the call whose exception ended the execution
  raised,         \* "none", or the last call that raised an exception
  plotted,        \* cell 45 has drawn its plot
  sobo_log,       \* history: every call sobo_strategy completed, in order
  \* --- 012-BNH.ipynb
  bnh_pc,         \* the cell to execute next
  bnh_SMOKE_TEST, \* cell 1
  bnh_runs,       \* the calls of run(...) started so far, in order
  bnh_plots,      \* the plotting calls made so far, in order
  \* --- one function of the notebooks called on its own (SpecFn)
  fn_call,        \* the function and the arguments it is called with
  fn_result,      \* what the call returned (<<>> before the call)
  \* --- the Tests workflow (SpecCI)
  ci_runs         \* the workflow runs triggered so far, in order

sim_vars == <<sim_input, sim_results, sim_nsamples, sim_candidates, sim_other, sim_calls>>

nb_vars == <<pc, SMOKE_TEST, constructed, candidates, experiments, sobo_experiments,
             new_candidate, new_experiment, i, done, exception, raised, plotted, sobo_log>>

bnh_vars == <<bnh_pc, bnh_SMOKE_TEST, bnh_runs, bnh_plots>>

fn_vars == <<fn_call, fn_result>>

ci_vars == <<ci_runs>>

vars == <<environ, rng, sim_vars, nb_vars, bnh_vars, fn_vars, ci_vars>>

\* no function is being called on its own
FnIdle ==
  /\ fn_call = <<>>
  /\ fn_result = <<>>

\* no workflow run has been triggered
CiIdle == ci_runs = <<>>

\* the BNH notebook before its first cell has run
BnhIdle ==
  /\ bnh_pc = "c1"
  /\ bnh_SMOKE_TEST = None
  /\ bnh_runs = <<>>
  /\ bnh_plots = <<>>

\* the notebook before its first cell has run
NotebookIdle ==
  /\ pc = "c1"
  /\ SMOKE_TEST = None
  /\ constructed = {}
  /\ candidates = <<>>
  /\ experiments = <<>>
  /\ sobo_experiments = <<>>
  /\ new_candidate = <<>>
  /\ new_experiment = <<>>
  /\ i = 0
  /\ done = FALSE
  /\ exception = "none"
  /\ raised = "none"
  /\ plotted = FALSE
  /\ sobo_log = <<>>

\* the simulator-only state before any call
SimIdle ==
  /\ sim_input = <<>>
  /\ sim_results = <<>>
  /\ sim_nsamples = 0
  /\ sim_candidates = <<>>
  /\ sim_other = [candidates |-> <<>>, samples |-> <<>>]
  /\ sim_calls = 0

(***************************************************************************)
(* The simulator on its own: calls of evaluate_experiments on one table,   *)
(* with calls of create_candidates and of evaluate_experiments on other    *)
(* tables in between.                                                      *)
(***************************************************************************)
InputTemperatures == {0, 60}

InputVolumes == {20, 90}

\* the candidate rows the simulator is called on: both ends of the
\* temperature range, MeOH in the smallest volume, THF and Dioxane in the largest
InputRows ==
  {r \in [Temperature : InputTemperatures,
          Solvent_Volume : InputVolumes,
          Solvent_Type : {"MeOH", "THF", "Dioxane"}] :
     (r.Solvent_Volume = 20) <=> (r.Solvent_Type = "MeOH")}

Tables(S, n) == UNION {[1..k -> S] : k \in 0..n}

SimInit ==
  /\ environ = <<>>
  /\ rng \in 0..(NSeeds - 1)
  /\ sim_input \in Tables(InputRows, MaxRows)
  /\ sim_results = <<>>
  /\ sim_nsamples = 0
  /\ sim_candidates = <<>>
  /\ sim_other = [candidates |-> <<>>, samples |-> <<>>]
  /\ sim_calls = 0
  /\ NotebookIdle
  /\ BnhIdle
  /\ FnIdle
  /\ CiIdle

SimEvaluate ==
  /\ sim_calls < MaxCalls
  /\ LET r == evaluate_experiments(domain, sim_input, rng)
     IN  /\ sim_results' = Append(sim_results, [at |-> rng, samples |-> r.samples])
         /\ rng' = r.rng
  /\ sim_calls' = sim_calls + 1
  /\ UNCHANGED <<environ, fn_vars, ci_vars, sim_input, sim_nsamples, sim_candidates, sim_other, nb_vars, bnh_vars>>

SimCreateCandidates ==
  /\ sim_calls < MaxCalls
  /\ \E nsamples \in 0..MaxRows :
       LET r == create_candidates(domain, nsamples, rng)
       IN  /\ sim_nsamples' = nsamples
           /\ sim_candidates' = r.candidates
           /\ rng' = r.rng
  /\ sim_calls' = sim_calls + 1
  /\ UNCHANGED <<environ, fn_vars, ci_vars, sim_input, sim_results, sim_other, nb_vars, bnh_vars>>

SimEvaluateCandidates ==
  /\ sim_calls < MaxCalls
  /\ LET r == evaluate_experiments(domain, sim_candidates, rng)
     IN  /\ sim_other' = [candidates |-> sim_candidates, samples |-> r.samples]
         /\ rng' = r.rng
  /\ sim_calls' = sim_calls + 1
  /\ UNCHANGED <<environ, fn_vars, ci_vars, sim_input, sim_results, sim_nsamples, sim_candidates, nb_vars, bnh_vars>>

SimNext == SimEvaluate \/ SimCreateCandidates \/ SimEvaluateCandidates

SpecSim == SimInit /\ [][SimNext]_vars

(***************************************************************************)
(* The strategies of bofire.strategies, as the notebook's text describes   *)
(* them: tell hands evaluated experiments to the strategy (added to what   *)
(* it holds, or in their place with replace=True), ask proposes candidates *)
(* of the domain.                                                          *)
(***************************************************************************)
Strategy_tell(held, told, replace) == IF replace THEN told ELSE held \o told

\* what the strategy may hold after a tell that raised: the exception comes
\* before or after the experiments were stored
Strategy_tell_raised(held, told, replace) == {held, Strategy_tell(held, told, replace)}

\* the candidates sobo_strategy.ask(1) may propose
SoboProposals ==
  {<<[Temperature |-> 60, Solvent_Volume |-> 90, Solvent_Type |-> "MeOH"]>>,
   <<[Temperature |-> 30, Solvent_Volume |-> 55, Solvent_Type |-> "Dioxane"]>>}

\* random_strategy.ask(n) from a generator of its own started at seed
RandomStrategy_ask(dom, n, seed) ==
  [j \in 1..n |->
     [Temperature |->
        np_random_uniform(dom.inputs.Temperature.lower_bound,
                          dom.inputs.Temperature.upper_bound,
                          np_random_after(seed, 3 * (j - 1))),
      Solvent_Volume |->
        np_random_uniform(dom.inputs.Solvent_Volume.lower_bound,
                          dom.inputs.Solvent_Volume.upper_bound,
                          np_random_after(seed, 3 * (j - 1) + 1)),
      Solvent_Type |->
        dom.inputs.Solvent_Type.categories[
          np_random_randint(0, 3, np_random_after(seed, 3 * (j - 1) + 2)) + 1]]]

\* one entry of sobo_log: the call, the cell that made it, the table it
\* returned (ask) or was given (tell), and the rows the strategy then held
LogEntry(call, cell, rows, held) ==
  [call |-> call, cell |-> cell, rows |-> rows, held |-> Len(held)]

(***************************************************************************)
(* Reaction_Optimization_Example.ipynb, cell by cell.  A call that raises  *)
(* ends the execution of the notebook: no cell catches anything.           *)
(***************************************************************************)
Running(cell) == pc = cell /\ exception = "none"

\* an exception leaving a cell outside the loop
CellRaise(call) ==
  /\ raised' = call
  /\ exception' = call
  /\ pc' = "error"

\* cell 1
Cell1 ==
  /\ Running("c1")
  /\ SMOKE_TEST' = os_environ_get(environ)
  /\ pc' = "c8"
  /\ UNCHANGED <<environ, fn_vars, ci_vars, rng, sim_vars, bnh_vars, constructed, candidates, experiments,
                 sobo_experiments, new_candidate, new_experiment, i, done,
                 exception, raised, plotted, sobo_log>>

\* cells 4, 5 and 8: features, objective, Domain(...)
Cell8 ==
  /\ Running("c8")
  /\ constructed' = constructed \cup {"domain"}
  /\ pc' = "c15"
  /\ UNCHANGED <<environ, fn_vars, ci_vars, rng, sim_vars, bnh_vars, SMOKE_TEST, candidates, experiments,
                 sobo_experiments, new_candidate, new_experiment, i, done,
                 exception, raised, plotted, sobo_log>>

\* cell 15: candidates = create_candidates(domain, nsamples=4)
Cell15 ==
  /\ Running("c15")
  /\ \/ LET r == create_candidates(domain, 4, rng)
        IN  /\ candidates' = r.candidates
            /\ rng' = r.rng
            /\ pc' = "c17"
            /\ UNCHANGED <<exception, raised>>
     \/ CellRaise("create_candidates") /\ UNCHANGED <<candidates, rng>>
  /\ UNCHANGED <<environ, fn_vars, ci_vars, sim_vars, bnh_vars, SMOKE_TEST, constructed, experiments,
                 sobo_experiments, new_candidate, new_experiment, i, done,
                 plotted, sobo_log>>

\* cell 17: experiments = evaluate_experiments(domain, candidates)
Cell17 ==
  /\ Running("c17")
  /\ \/ LET r == evaluate_experiments(domain, candidates, rng)
        IN  /\ experiments' = r.samples
            /\ rng' = r.rng
            /\ pc' = "c21"
            /\ UNCHANGED <<exception, raised>>
     \/ CellRaise("evaluate_experiments") /\ UNCHANGED <<experiments, rng>>
  /\ UNCHANGED <<environ, fn_vars, ci_vars, sim_vars, bnh_vars, SMOKE_TEST, constructed, candidates,
                 sobo_experiments, new_candidate, new_experiment, i, done,
                 plotted, sobo_log>>

\* cell 21: sobo_strategy = strategies.map(SoboStrategy(domain=domain, ...))
Cell21 ==
  /\ Running("c21")
  /\ constructed' = constructed \cup {"sobo_strategy"}
  /\ sobo_experiments' = <<>>
  /\ pc' = "c22"
  /\ UNCHANGED <<environ, fn_vars, ci_vars, rng, sim_vars, bnh_vars, SMOKE_TEST, candidates, experiments,
                 new_candidate, new_experiment, i, done, exception, raised, plotted,
                 sobo_log>>

\* mutant: cell 22 asks the strategy where it should tell it
Cell22_asks ==
  /\ Running("c22")
  /\ new_candidate' \in SoboProposals
  /\ sobo_log' = Append(sobo_log, LogEntry("ask", 22, new_candidate', sobo_experiments))
  /\ pc' = "c26"
  /\ UNCHANGED <<environ, fn_vars, ci_vars, rng, sim_vars, bnh_vars, SMOKE_TEST, constructed, candidates,
                 experiments, sobo_experiments, new_experiment, i, done, exception,
                 raised, plotted>>

\* cell 22: sobo_strategy.tell(experiments)
Cell22 ==
  /\ Running("c22")
  /\ \/ LET held == Strategy_tell(sobo_experiments, experiments, FALSE)
        IN  /\ sobo_experiments' = held
            /\ sobo_log' = Append(sobo_log, LogEntry("tell", 22, experiments, held))
            /\ pc' = "c26"
            /\ UNCHANGED <<exception, raised>>
     \/ /\ CellRaise("tell")
        /\ sobo_experiments' \in Strategy_tell_raised(sobo_experiments, experiments, FALSE)
        /\ UNCHANGED sobo_log
  /\ UNCHANGED <<environ, fn_vars, ci_vars, rng, sim_vars, bnh_vars, SMOKE_TEST, constructed, candidates,
                 experiments, new_candidate, new_experiment, i, done, plotted>>

\* cell 26: random_strategy = strategies.map(RandomStrategyModel(domain=domain))
Cell26 ==
  /\ Running("c26")
  /\ constructed' = constructed \cup {"random_strategy"}
  /\ pc' = "c28"
  /\ UNCHANGED <<environ, fn_vars, ci_vars, rng, sim_vars, bnh_vars, SMOKE_TEST, candidates, experiments,
                 sobo_experiments, new_candidate, new_experiment, i, done,
                 exception, raised, plotted, sobo_log>>

\* cell 28: candidates = random_strategy.ask(5)
Cell28 ==
  /\ Running("c28")
  /\ \/ /\ \E seed \in 0..(NSeeds - 1) :
             candidates' = RandomStrategy_ask(domain, 5, seed)
        /\ pc' = "c32"
        /\ UNCHANGED <<exception, raised>>
     \/ CellRaise("ask") /\ UNCHANGED candidates
  /\ UNCHANGED <<environ, fn_vars, ci_vars, rng, sim_vars, bnh_vars, SMOKE_TEST, constructed, experiments,
                 sobo_experiments, new_candidate, new_experiment, i, done,
                 plotted, sobo_log>>

\* cell 32: experiments = evaluate_experiments(domain, candidates)
Cell32 ==
  /\ Running("c32")
  /\ \/ LET r == evaluate_experiments(domain, candidates, rng)
        IN  /\ experiments' = r.samples
            /\ rng' = r.rng
            /\ pc' = "c36"
            /\ UNCHANGED <<exception, raised>>
     \/ CellRaise("evaluate_experiments") /\ UNCHANGED <<experiments, rng>>
  /\ UNCHANGED <<environ, fn_vars, ci_vars, sim_vars, bnh_vars, SMOKE_TEST, constructed, candidates,
                 sobo_experiments, new_candidate, new_experiment, i, done,
                 plotted, sobo_log>>

\* mutant: cell 36 telling without replace
Cell36_append == FALSE

\* cell 36, the arguments of its tell: replace=True
Cell36_replace == TRUE

\* cell 36: sobo_strategy.tell(experiments, replace=True, retrain=True)
Cell36 ==
  /\ Running("c36")
  /\ \/ LET held == Strategy_tell(sobo_experiments, experiments, Cell36_replace)
        IN  /\ sobo_experiments' = held
            /\ sobo_log' = Append(sobo_log, LogEntry("tell", 36, experiments, held))
            /\ pc' = "c38"
            /\ UNCHANGED <<exception, raised>>
     \/ /\ CellRaise("tell")
        /\ sobo_experiments' \in
             Strategy_tell_raised(sobo_experiments, experiments, Cell36_replace)
        /\ UNCHANGED sobo_log
  /\ UNCHANGED <<environ, fn_vars, ci_vars, rng, sim_vars, bnh_vars, SMOKE_TEST, constructed, candidates,
                 experiments, new_candidate, new_experiment, i, done, plotted>>

\* cell 38: new_candidate = sobo_strategy.ask(1)
Cell38 ==
  /\ Running("c38")
  /\ \/ /\ new_candidate' \in SoboProposals
        /\ sobo_log' = Append(sobo_log, LogEntry("ask", 38, new_candidate', sobo_experiments))
        /\ pc' = "c42"
        /\ UNCHANGED <<exception, raised>>
     \/ CellRaise("ask") /\ UNCHANGED <<new_candidate, sobo_log>>
  /\ UNCHANGED <<environ, fn_vars, ci_vars, rng, sim_vars, bnh_vars, SMOKE_TEST, constructed, candidates,
                 experiments, sobo_experiments, new_experiment, i, done, plotted>>

(***************************************************************************)
(* Cell 42, the optimization loop, statement by statement.                 *)
(***************************************************************************)
experimental_budget == 10

\* mutant: the loop is entered whatever SMOKE_TEST is
initial_done_always_false(smoke) == FALSE

\* done = False if not SMOKE_TEST else True
initial_done(smoke) == IF ~bool(smoke) THEN FALSE ELSE TRUE

\* mutant: the budget test never succeeds
budget_spent_never(n) == FALSE

\* if i > experimental_budget
budget_spent(n) == n > experimental_budget

\* mutant: the loop body in a try whose except clause goes on with the loop
LoopRaise_swallowed(call) ==
  /\ raised' = call
  /\ exception' = exception
  /\ pc' = "c42_while"

\* an exception leaving the loop body: nothing in the loop catches it
LoopRaise(call) ==
  /\ raised' = call
  /\ exception' = call
  /\ pc' = "error"

\* experimental_budget = 10; i = 0; done = ...
Cell42 ==
  /\ Running("c42")
  /\ i' = 0
  /\ done' = initial_done(SMOKE_TEST)
  /\ pc' = "c42_while"
  /\ UNCHANGED <<environ, fn_vars, ci_vars, rng, sim_vars, bnh_vars, SMOKE_TEST, constructed, candidates,
                 experiments, sobo_experiments, new_candidate, new_experiment,
                 exception, raised, plotted, sobo_log>>

\* while not done:
Loop_While ==
  /\ Running("c42_while")
  /\ pc' = IF ~done THEN "c42_ask" ELSE "c44"
  /\ UNCHANGED <<environ, fn_vars, ci_vars, rng, sim_vars, bnh_vars, SMOKE_TEST, constructed, candidates,
                 experiments, sobo_experiments, new_candidate, new_experiment,
                 i, done, exception, raised, plotted, sobo_log>>

\* i += 1; new_candidate = sobo_strategy.ask(1)
Loop_Ask ==
  /\ Running("c42_ask")
  /\ i < MaxIter
  /\ i' = i + 1
  /\ \/ /\ new_candidate' \in SoboProposals
        /\ sobo_log' = Append(sobo_log, LogEntry("ask", 42, new_candidate', sobo_experiments))
        /\ pc' = "c42_evaluate"
        /\ UNCHANGED <<exception, raised>>
     \/ LoopRaise("ask") /\ UNCHANGED <<new_candidate, sobo_log>>
  /\ UNCHANGED <<environ, fn_vars, ci_vars, rng, sim_vars, bnh_vars, SMOKE_TEST, constructed, candidates,
                 experiments, sobo_experiments, new_experiment, done, plotted>>

\* new_experiment = evaluate_experiments(domain, new_candidate)
Loop_Evaluate ==
  /\ Running("c42_evaluate")
  /\ \/ LET r == evaluate_experiments(domain, new_candidate, rng)
        IN  /\ new_experiment' = r.samples
            /\ rng' = r.rng
            /\ pc' = "c42_tell"
            /\ UNCHANGED <<exception, raised>>
     \/ LoopRaise("evaluate_experiments") /\ UNCHANGED <<new_experiment, rng>>
  /\ UNCHANGED <<environ, fn_vars, ci_vars, sim_vars, bnh_vars, SMOKE_TEST, constructed, candidates,
                 experiments, sobo_experiments, new_candidate, i, done, plotted,
                 sobo_log>>

\* mutant: the new experiment is not told
Loop_Tell_skipped ==
  /\ Running("c42_tell")
  /\ pc' = "c42_if"
  /\ UNCHANGED <<environ, fn_vars, ci_vars, rng, sim_vars, bnh_vars, SMOKE_TEST, constructed, candidates,
                 experiments, sobo_experiments, new_candidate, new_experiment, i, done,
                 exception, raised, plotted, sobo_log>>

\* sobo_strategy.tell(new_experiment)
Loop_Tell ==
  /\ Running("c42_tell")
  /\ \/ LET held == Strategy_tell(sobo_experiments, new_experiment, FALSE)
        IN  /\ sobo_experiments' = held
            /\ sobo_log' = Append(sobo_log, LogEntry("tell", 42, new_experiment, held))
            /\ pc' = "c42_if"
            /\ UNCHANGED <<exception, raised>>
     \/ /\ LoopRaise("tell")
        /\ sobo_experiments' \in
             Strategy_tell_raised(sobo_experiments, new_experiment, FALSE)
        /\ UNCHANGED sobo_log
  /\ UNCHANGED <<environ, fn_vars, ci_vars, rng, sim_vars, bnh_vars, SMOKE_TEST, constructed, candidates,
                 experiments, new_candidate, new_experiment, i, done, plotted>>

\* if i > experimental_budget: done = True
Loop_If ==
  /\ Running("c42_if")
  /\ done' = IF budget_spent(i) THEN TRUE ELSE done
  /\ pc' = "c42_while"
  /\ UNCHANGED <<environ, fn_vars, ci_vars, rng, sim_vars, bnh_vars, SMOKE_TEST, constructed, candidates,
                 experiments, sobo_experiments, new_candidate, new_experiment,
                 i, exception, raised, plotted, sobo_log>>

\* cell 44: sobo_strategy.experiments (displayed)
Cell44 ==
  /\ Running("c44")
  /\ pc' = "c45"
  /\ UNCHANGED <<environ, fn_vars, ci_vars, rng, sim_vars, bnh_vars, SMOKE_TEST, constructed, candidates,
                 experiments, sobo_experiments, new_candidate, new_experiment,
                 i, done, exception, raised, plotted, sobo_log>>

\* cell 45: sobo_strategy.experiments["Yield"].plot()
Cell45 ==
  /\ Running("c45")
  /\ plotted' = TRUE
  /\ pc' = "end"
  /\ UNCHANGED <<environ, fn_vars, ci_vars, rng, sim_vars, bnh_vars, SMOKE_TEST, constructed, candidates,
                 experiments, sobo_experiments, new_candidate, new_experiment,
                 i, done, exception, raised, sobo_log>>

Init ==
  /\ environ \in Environments
  /\ rng \in 0..(NSeeds - 1)
  /\ SimIdle
  /\ NotebookIdle
  /\ BnhIdle
  /\ FnIdle
  /\ CiIdle

Next ==
  \/ Cell1 \/ Cell8 \/ Cell15 \/ Cell17 \/ Cell21 \/ Cell22 \/ Cell26 \/ Cell28
  \/ Cell32 \/ Cell36 \/ Cell38 \/ Cell42
  \/ Loop_While \/ Loop_Ask \/ Loop_Evaluate \/ Loop_Tell \/ Loop_If
  \/ Cell44 \/ Cell45

Spec == Init /\ [][Next]_vars

\* every cell the notebook can execute is executed: the kernel runs the
\* cells one after the other until the last one or an exception
FairSpec == Spec /\ WF_vars(Next)

(***************************************************************************)
(* 012-BNH.ipynb, cell by cell.  run(benchmark, ..., n_iterations, ...) of *)
(* bofire.runners performs n_iterations rounds of ask, evaluate, tell and  *)
(* metric and returns; a run is recorded with the arguments it was started *)
(* with and the rounds it has completed.                                   *)
(***************************************************************************)
\* cell 3: n_iterations=50 if not SMOKE_TEST else 1
Cell3_n_iterations(smoke) == IF ~bool(smoke) THEN 50 ELSE 1

\* mutant: cell 5 testing whether the variable is set at all
Cell5_n_iterations_is_set(smoke) == IF smoke.type = "NoneType" THEN 50 ELSE 1

\* cell 5: n_iterations=50 if not SMOKE_TEST else 1
Cell5_n_iterations(smoke) == IF ~bool(smoke) THEN 50 ELSE 1

\* mutant: cell 12 without the smoke-test switch
Cell12_n_iterations_fixed(smoke) == 50

\* cell 12: n_iterations=50 if not SMOKE_TEST else 1
Cell12_n_iterations(smoke) == IF ~bool(smoke) THEN 50 ELSE 1

\* a call of run(...) as it starts
RunStarted(result, strategy, constraints, n_iterations) ==
  [result |-> result, strategy |-> strategy, constraints |-> constraints,
   n_iterations |-> n_iterations, completed |-> 0]

\* the run a cell has started is still iterating
RunInProgress ==
  /\ bnh_runs # <<>>
  /\ bnh_runs[Len(bnh_runs)].completed < bnh_runs[Len(bnh_runs)].n_iterations

\* import os ...; SMOKE_TEST = os.environ.get("SMOKE_TEST")
BnhCell1 ==
  /\ bnh_pc = "c1"
  /\ bnh_SMOKE_TEST' = os_environ_get(environ)
  /\ bnh_pc' = "c3"
  /\ UNCHANGED <<environ, fn_vars, ci_vars, rng, sim_vars, nb_vars, bnh_runs, bnh_plots>>

\* random_results = run(BNH(constraints=True), RandomStrategy, ...)
BnhCell3 ==
  /\ bnh_pc = "c3"
  /\ bnh_runs' = Append(bnh_runs,
       RunStarted("random_results", "RandomStrategy", TRUE,
                  Cell3_n_iterations(bnh_SMOKE_TEST)))
  /\ bnh_pc' = "c3_run"
  /\ UNCHANGED <<environ, fn_vars, ci_vars, rng, sim_vars, nb_vars, bnh_SMOKE_TEST, bnh_plots>>

\* results = run(BNH(constraints=False), MoboStrategy, ...)
BnhCell5 ==
  /\ bnh_pc = "c5"
  /\ bnh_runs' = Append(bnh_runs,
       RunStarted("results", "MoboStrategy", FALSE,
                  Cell5_n_iterations(bnh_SMOKE_TEST)))
  /\ bnh_pc' = "c5_run"
  /\ UNCHANGED <<environ, fn_vars, ci_vars, rng, sim_vars, nb_vars, bnh_SMOKE_TEST, bnh_plots>>

\* c_results = run(BNH(constraints=True), MoboStrategy, ...)
BnhCell12 ==
  /\ bnh_pc = "c12"
  /\ bnh_runs' = Append(bnh_runs,
       RunStarted("c_results", "MoboStrategy", TRUE,
                  Cell12_n_iterations(bnh_SMOKE_TEST)))
  /\ bnh_pc' = "c12_run"
  /\ UNCHANGED <<environ, fn_vars, ci_vars, rng, sim_vars, nb_vars, bnh_SMOKE_TEST, bnh_plots>>

\* one round of the run in progress
BnhRunIterate ==
  /\ bnh_pc \in {"c3_run", "c5_run", "c12_run"}
  /\ RunInProgress
  /\ bnh_runs' = [bnh_runs EXCEPT ![Len(bnh_runs)].completed = @ + 1]
  /\ UNCHANGED <<environ, fn_vars, ci_vars, rng, sim_vars, nb_vars, bnh_pc, bnh_SMOKE_TEST, bnh_plots>>

\* the run returns and the next cell is up
BnhRunReturn ==
  /\ bnh_pc \in {"c3_run", "c5_run", "c12_run"}
  /\ ~RunInProgress
  /\ bnh_pc' = CASE bnh_pc = "c3_run" -> "c5"
                 [] bnh_pc = "c5_run" -> "c7"
                 [] bnh_pc = "c12_run" -> "c13"
  /\ UNCHANGED <<environ, fn_vars, ci_vars, rng, sim_vars, nb_vars, bnh_SMOKE_TEST, bnh_runs, bnh_plots>>

\* cell 7: domain = Domain(...)
BnhCell7 ==
  /\ bnh_pc = "c7"
  /\ bnh_pc' = "c9"
  /\ UNCHANGED <<environ, fn_vars, ci_vars, rng, sim_vars, nb_vars, bnh_SMOKE_TEST, bnh_runs, bnh_plots>>

\* cell 9: if not SMOKE_TEST: plot_objective_plotly(feat, lower=20, upper=30)
BnhCell9 ==
  /\ bnh_pc = "c9"
  /\ bnh_plots' = IF ~bool(bnh_SMOKE_TEST)
                  THEN Append(bnh_plots, "plot_objective_plotly c1")
                  ELSE bnh_plots
  /\ bnh_pc' = "c10"
  /\ UNCHANGED <<environ, fn_vars, ci_vars, rng, sim_vars, nb_vars, bnh_SMOKE_TEST, bnh_runs>>

\* mutant: cell 10 without the smoke-test guard
BnhCell10_unguarded ==
  /\ bnh_pc = "c10"
  /\ bnh_plots' = Append(bnh_plots, "plot_objective_plotly c2")
  /\ bnh_pc' = "c12"
  /\ UNCHANGED <<environ, fn_vars, ci_vars, rng, sim_vars, nb_vars, bnh_SMOKE_TEST, bnh_runs>>

\* cell 10: if not SMOKE_TEST: plot_objective_plotly(feat, lower=5, upper=10)
BnhCell10 ==
  /\ bnh_pc = "c10"
  /\ bnh_plots' = IF ~bool(bnh_SMOKE_TEST)
                  THEN Append(bnh_plots, "plot_objective_plotly c2")
                  ELSE bnh_plots
  /\ bnh_pc' = "c12"
  /\ UNCHANGED <<environ, fn_vars, ci_vars, rng, sim_vars, nb_vars, bnh_SMOKE_TEST, bnh_runs>>

\* cell 13: if not SMOKE_TEST: ... ax.plot(...); plt.show()
BnhCell13 ==
  /\ bnh_pc = "c13"
  /\ bnh_plots' = IF ~bool(bnh_SMOKE_TEST)
                  THEN Append(bnh_plots, "plt.show")
                  ELSE bnh_plots
  /\ bnh_pc' = "end"
  /\ UNCHANGED <<environ, fn_vars, ci_vars, rng, sim_vars, nb_vars, bnh_SMOKE_TEST, bnh_runs>>

BnhInit ==
  /\ environ \in Environments
  /\ rng = 0
  /\ SimIdle
  /\ NotebookIdle
  /\ BnhIdle
  /\ FnIdle
  /\ CiIdle

BnhNext ==
  \/ BnhCell1 \/ BnhCell3 \/ BnhCell5 \/ BnhCell7 \/ BnhCell9 \/ BnhCell10
  \/ BnhCell12 \/ BnhCell13 \/ BnhRunIterate \/ BnhRunReturn

SpecBNH == BnhInit /\ [][BnhNext]_vars

(***************************************************************************)
(* Properties.                                                             *)
(***************************************************************************)
\* SMOKE_TEST is set to a non-empty value in the process environment
SmokeSet == environ # <<>> /\ environ[1] # ""

\* SMOKE_TEST is not set in the process environment
SmokeUnset == environ = <<>>

\* C1: in the BNH notebook every run(...) is started with n_iterations = 1
\* when SMOKE_TEST is set to a non-empty value and with n_iterations = 50
\* when it is unset; the runs never differ in their iteration count, and
\* the notebook starts exactly the three runs random_results, results and
\* c_results.
C1_SmokeTestSetsIterations ==
  /\ \A k \in 1..Len(bnh_runs) :
       /\ SmokeSet => bnh_runs[k].n_iterations = 1
       /\ SmokeUnset => bnh_runs[k].n_iterations = 50
  /\ \A j, k \in 1..Len(bnh_runs) :
       bnh_runs[j].n_iterations = bnh_runs[k].n_iterations
  /\ bnh_pc = "end" =>
       [k \in 1..Len(bnh_runs) |-> bnh_runs[k].result]
         = <<"random_results", "results", "c_results">>

C1_Witness ==
  /\ bnh_pc = "end"
  /\ environ = <<"0">>
  /\ Len(bnh_runs) = 3
  /\ \A k \in 1..3 : bnh_runs[k].n_iterations = 1 /\ bnh_runs[k].completed = 1

\* the statements of cell 42 inside the while loop
LoopBody == {"c42_ask", "c42_evaluate", "c42_tell", "c42_if"}

\* C2: with SMOKE_TEST set to a non-empty value, cell 42 goes from its
\* first line through the loop test to cell 44 without entering the loop
\* body: no call reaches sobo_strategy, its experiments stay as they were
\* before the cell, and i stays 0.
C2_SmokeSkipsLoop ==
  [][(SmokeSet /\ pc \in {"c42", "c42_while"} \cup LoopBody)
       => /\ pc' \in {"c42_while", "c44"}
          /\ sobo_experiments' = sobo_experiments
          /\ sobo_log' = sobo_log
          /\ i' = 0
          /\ exception' = "none"]_vars

C2_Witness ==
  /\ pc = "c44"
  /\ environ = <<"false">>
  /\ done
  /\ i = 0
  /\ Len(sobo_experiments) = 5

\* C3: when no call raises, the notebook reaches its end for every value
\* of SMOKE_TEST: the loop of cell 42 terminates and the cells after it run.
C3_NotebookCompletes == <>(pc = "end" \/ exception # "none")

C3_Witness ==
  /\ pc = "end"
  /\ exception = "none"
  /\ SmokeUnset
  /\ done
  /\ i > experimental_budget
  /\ plotted

\* the input columns of a row
Inputs(row) ==
  <<row.Temperature, row.Solvent_Volume, row.Solvent_Type>>

\* every row evaluate_experiments has returned in this run of the simulator
SimEvaluatedRows ==
  {sim_results[a].samples[j] :
     a \in 1..Len(sim_results), j \in 1..Len(sim_input)}
  \cup {sim_other.samples[j] : j \in 1..Len(sim_other.samples)}

\* C4: evaluate_experiments(domain, candidates) is deterministic and
\* stateless: all calls on one candidates table return the same Yield row by
\* row whatever state numpy's generator is in and whatever simulator calls
\* were made in between, and two rows with equal Temperature, Solvent
\* Volume and Solvent Type get equal Yield in whatever table they stand.
C4_SimulatorDeterministic ==
  /\ \A a, b \in 1..Len(sim_results) :
       /\ Len(sim_results[a].samples) = Len(sim_results[b].samples)
       /\ \A j \in 1..Len(sim_results[a].samples) :
            sim_results[a].samples[j].Yield = sim_results[b].samples[j].Yield
  /\ \A r1, r2 \in SimEvaluatedRows :
       Inputs(r1) = Inputs(r2) => r1.Yield = r2.Yield

C4_Witness ==
  /\ Len(sim_input) = 2
  /\ sim_input[1] # sim_input[2]
  /\ Len(sim_results) = 2
  /\ sim_results[1].at # sim_results[2].at
  /\ sim_results[1].samples[1].Yield # sim_results[1].samples[2].Yield
  /\ sim_candidates # <<>>

\* the table returned for `cands` has their rows, in their order, with
\* Yield and valid_Yield = 1 added
Evaluated(cands, samples) ==
  /\ Len(samples) = Len(cands)
  /\ \A j \in 1..Len(cands) :
       /\ DOMAIN samples[j] = DOMAIN cands[j] \cup {"Yield", "valid_Yield"}
       /\ \A col \in DOMAIN cands[j] : samples[j][col] = cands[j][col]
       /\ samples[j].valid_Yield = 1

\* C5: for a candidates table with n rows evaluate_experiments returns n
\* rows in the same order, with Temperature, Solvent Volume and Solvent
\* Type unchanged and the columns Yield and valid_Yield added, valid_Yield
\* being 1 in every row.
C5_EvaluateKeepsCandidates ==
  /\ \A a \in 1..Len(sim_results) : Evaluated(sim_input, sim_results[a].samples)
  /\ Evaluated(sim_other.candidates, sim_other.samples)

C5_Witness ==
  /\ Len(sim_input) = 2
  /\ sim_input[1].Temperature # sim_input[2].Temperature
  /\ sim_input[1].Solvent_Volume = 90
  /\ sim_input[1].Temperature = 0
  /\ Len(sim_results) = 1
  /\ Len(sim_other.candidates) = 2
  /\ Len(sim_other.samples) = 2

\* the entries of sobo_log made by cell 42
LoopLog == SelectSeq(sobo_log, LAMBDA e : e.cell = 42)

\* the entries of sobo_log made by the cells before cell 42
SetupLog == SelectSeq(sobo_log, LAMBDA e : e.cell # 42)

\* the cells after the loop
AfterLoop == {"c44", "c45", "end"}

\* C6: the cells run in the order construct domain, construct strategy,
\* ask/tell, plot, and every ask sobo_strategy answers, the one of cell 38
\* and those of the loop, comes after a tell that gave the strategy a
\* non-empty table of evaluated experiments.
C6_AskOnlyAfterTell ==
  /\ "sobo_strategy" \in constructed => "domain" \in constructed
  /\ sobo_log # <<>> => "sobo_strategy" \in constructed
  /\ plotted => pc = "end"
  /\ pc = "end" => plotted
  /\ \A k \in 1..Len(sobo_log) :
       sobo_log[k].call = "ask" =>
         \E m \in 1..(k - 1) :
           /\ sobo_log[m].call = "tell"
           /\ sobo_log[m].rows # <<>>
           /\ \A j \in 1..Len(sobo_log[m].rows) :
                {"Yield", "valid_Yield"} \subseteq DOMAIN sobo_log[m].rows[j]

C6_Witness ==
  /\ pc = "end"
  /\ plotted
  /\ SmokeUnset
  /\ \E k \in 1..Len(sobo_log) : sobo_log[k].call = "ask" /\ sobo_log[k].cell = 38
  /\ \E k \in 1..Len(sobo_log) : sobo_log[k].call = "ask" /\ sobo_log[k].cell = 42

\* C7: in the loop asks and tells alternate, beginning with an ask; each
\* tell hands over the evaluation of the candidate the ask before it
\* proposed, so each proposed candidate is told once; each tell makes the
\* strategy hold one experiment more; an ask is issued only when every
\* earlier candidate has been told.
C7_AskTellAlternate ==
  LET L == LoopLog
      n == Len(L)
  IN  /\ \A k \in 1..n : L[k].call = IF k % 2 = 1 THEN "ask" ELSE "tell"
      /\ \A k \in 1..n :
           k % 2 = 0 =>
             /\ Len(L[k - 1].rows) = 1
             /\ Evaluated(L[k - 1].rows, L[k].rows)
             /\ L[k].held = L[k - 1].held + 1
      /\ \A k \in 2..n : k % 2 = 1 => L[k].held = L[k - 1].held
      /\ pc \in {"c42_while", "c42_ask"} \cup AfterLoop => n = 2 * i
      /\ (pc \in {"c42_while", "c42_ask"} \cup AfterLoop /\ i > 0) =>
           Len(sobo_experiments) = L[1].held + i

C7_Witness ==
  /\ pc = "c42_ask"
  /\ i = 3
  /\ Len(LoopLog) = 6
  /\ LoopLog[1].rows # LoopLog[3].rows
  /\ Len(sobo_experiments) = 8

\* C8: nothing recovers from a failure in the loop: when ask,
\* evaluate_experiments or tell raises in iteration i the exception ends
\* the execution, no call reaches the strategy afterwards, and after a
\* failed ask or evaluate_experiments the strategy holds what it held after
\* iteration i - 1.
C8_NoRecovery ==
  /\ [][/\ raised' # raised =>
             /\ exception' = raised'
             /\ pc' = "error"
             /\ sobo_log' = sobo_log
             /\ raised' \in {"ask", "evaluate_experiments", "create_candidates"}
                  => sobo_experiments' = sobo_experiments
        /\ exception # "none" => UNCHANGED vars]_vars
  /\ [](raised # "none" => (exception = raised /\ pc = "error"))
  /\ []((exception \in {"ask", "evaluate_experiments"} /\ i > 0) =>
          /\ Len(LoopLog) \in {2 * (i - 1), 2 * (i - 1) + 1}
          /\ Len(sobo_experiments) = Len(experiments) + (i - 1))

C8_Witness ==
  /\ pc = "error"
  /\ exception = "evaluate_experiments"
  /\ i = 4
  /\ Len(LoopLog) = 7
  /\ Len(sobo_experiments) = 8

\* C9 as claimed: with SMOKE_TEST unset the loop makes exactly
\* experimental_budget = 10 ask(1) calls and 10 tell calls.
C9_LoopSpendsBudget ==
  (pc \in AfterLoop /\ SmokeUnset) =>
    /\ i = experimental_budget
    /\ Len(SelectSeq(LoopLog, LAMBDA e : e.call = "ask")) = experimental_budget
    /\ Len(SelectSeq(LoopLog, LAMBDA e : e.call = "tell")) = experimental_budget

\* C10: the tell of cell 36 replaces what the strategy was told in cell 22:
\* after it the strategy holds exactly the 5 evaluated candidates of the
\* random strategy, not the 4 trial experiments; after the loop it holds
\* them followed by one row for each of the i iterations of the loop.
C10_ReplaceDiscardsTrials ==
  /\ (pc \in {"c38", "c42", "c42_while", "c42_ask"} \cup AfterLoop) =>
       /\ Len(experiments) = 5
       /\ experiments = evaluate_experiments(domain, candidates, rng).samples
       /\ Len(sobo_experiments) = 5 + i
       /\ SubSeq(sobo_experiments, 1, 5) = experiments
  /\ \A k \in 1..Len(sobo_log) :
       /\ sobo_log[k].cell = 22 => sobo_log[k].held = 4
       /\ sobo_log[k].cell = 36 => sobo_log[k].held = 5

C10_Witness ==
  /\ pc = "end"
  /\ SmokeUnset
  /\ i > 0
  /\ Len(sobo_experiments) = 5 + i
  /\ Len(SetupLog) = 3
  /\ SetupLog[1].rows # SetupLog[2].rows

(***************************************************************************)
(* One function called on its own: the call is drawn, then made.           *)
(***************************************************************************)
\* rows of a run of BNH(constraints=True): both constraints on either side
\* of, and on, their thresholds
ConstrainedRows ==
  [f1 : {100}, f2 : {30}, c1 : {240, 250, 260}, c2 : {76, 77, 78}]

\* rows of a run of BNH(constraints=False): no constraint columns
UnconstrainedRows == [f1 : {100, 150}, f2 : {30}]

HypervolumeCalls ==
  {[fn |-> "hypervolume", domain |-> "BNH(constraints=True)",
    experiments |-> [columns |-> {"f1", "f2", "c1", "c2"}, rows |-> t]] :
      t \in Tables(ConstrainedRows, MaxRows)}
  \cup
  {[fn |-> "hypervolume", domain |-> "BNH(constraints=False)",
    experiments |-> [columns |-> {"f1", "f2"}, rows |-> t]] :
      t \in Tables(UnconstrainedRows, MaxRows)}

\* every whole volume of the Solvent Volume input
VolumeFactCalls ==
  {[fn |-> "calc_volume_fact", V |-> v] :
     v \in solvent_amount_feature.lower_bound .. solvent_amount_feature.upper_bound}

\* every category of the Solvent Type input, at the Tfact of 0, 30 and 60 degrees
RhofactCalls ==
  {[fn |-> "calc_rhofact",
    solvent_type |-> solvent_type_feature.categories[k],
    Tfact |-> calc_Tfact(T)] :
     k \in 1..Len(solvent_type_feature.categories), T \in {0, 30, 60}}

KeyError == [type |-> "KeyError"]

FnInit ==
  /\ environ = <<>>
  /\ rng = 0
  /\ fn_call \in HypervolumeCalls \cup VolumeFactCalls \cup RhofactCalls
  /\ fn_result = <<>>
  /\ SimIdle
  /\ NotebookIdle
  /\ BnhIdle
  /\ CiIdle

FnHypervolume ==
  /\ fn_call.fn = "hypervolume"
  /\ fn_result = <<>>
  /\ fn_result' = <<hypervolume(fn_call.domain, fn_call.experiments)>>
  /\ UNCHANGED <<environ, rng, fn_call, ci_vars, sim_vars, nb_vars, bnh_vars>>

FnCalcVolumeFact ==
  /\ fn_call.fn = "calc_volume_fact"
  /\ fn_result = <<>>
  /\ fn_result' = <<calc_volume_fact(fn_call.V)>>
  /\ UNCHANGED <<environ, rng, fn_call, ci_vars, sim_vars, nb_vars, bnh_vars>>

\* solvent_descriptors["density"][solvent_type] raises KeyError for a label
\* the frame does not have
FnCalcRhofact ==
  /\ fn_call.fn = "calc_rhofact"
  /\ fn_result = <<>>
  /\ fn_result' =
       IF fn_call.solvent_type \in DOMAIN solvent_descriptors["density"]
       THEN <<[type |-> "ndarray", value |-> calc_rhofact(fn_call.solvent_type, fn_call.Tfact)]>>
       ELSE <<KeyError>>
  /\ UNCHANGED <<environ, rng, fn_call, ci_vars, sim_vars, nb_vars, bnh_vars>>

FnNext == FnHypervolume \/ FnCalcVolumeFact \/ FnCalcRhofact

SpecFn == FnInit /\ [][FnNext]_vars

\* C11: the metric always calls compute_hypervolume with the reference
\* point f1 = 140, f2 = 50 and the domain it was given; of a table with a
\* column c1 it passes exactly the rows with c1 <= 25 and c2 >= 7.7, every
\* one of them and no other, in their order; a table without a column c1 it
\* passes whole.
C11_HypervolumeFilter ==
  (fn_call # <<>> /\ fn_call.fn = "hypervolume" /\ fn_result # <<>>) =>
    LET given == fn_call.experiments
        passed == fn_result[1].experiments
        Kept == {k \in 1..Len(given.rows) :
                   given.rows[k].c1 <= 250 /\ given.rows[k].c2 >= 77}
    IN  /\ fn_result[1].ref_point = [f1 |-> 140, f2 |-> 50]
        /\ fn_result[1].domain = fn_call.domain
        /\ "c1" \notin given.columns => passed = given
        /\ "c1" \in given.columns =>
             /\ passed.columns = given.columns
             /\ Len(passed.rows) = Cardinality(Kept)
             /\ \A k \in Kept : \E j \in 1..Len(passed.rows) : passed.rows[j] = given.rows[k]
             /\ \A j \in 1..Len(passed.rows) :
                  /\ passed.rows[j].c1 <= 250 /\ passed.rows[j].c2 >= 77
                  /\ \E k \in Kept : passed.rows[j] = given.rows[k]

\* a row on both thresholds is passed on, the row after it, beyond the
\* threshold of c1, is not
C11_Witness ==
  /\ fn_call # <<>> /\ fn_call.fn = "hypervolume" /\ fn_result # <<>>
  /\ Len(fn_call.experiments.rows) = 2
  /\ fn_call.experiments.rows[1].c1 = 250 /\ fn_call.experiments.rows[1].c2 = 77
  /\ fn_call.experiments.rows[2].c1 = 260
  /\ fn_result[1].experiments.rows = <<fn_call.experiments.rows[1]>>

\* C12: over the volumes 20 to 90 calc_volume_fact has the shape its
\* comment gives: no value exceeds 1, the value at V = 75 is 1, the value
\* at V = 20 is 0.7 and the value at V = 90 is 0.5 (values in 1/VfactDen).
C12_VolumeFactShape ==
  (fn_call # <<>> /\ fn_call.fn = "calc_volume_fact" /\ fn_result # <<>>) =>
    /\ fn_result[1] <= VfactDen
    /\ fn_call.V = 75 => fn_result[1] = VfactDen
    /\ fn_call.V = 20 => 10 * fn_result[1] = 7 * VfactDen
    /\ fn_call.V = 90 => 2 * fn_result[1] = VfactDen

\* C13: for every category of the Solvent Type input the lookup
\* solvent_descriptors["density"][solvent_type] of calc_rhofact finds a
\* value (no KeyError), and the density found lies between 0.7 and 1.1.
C13_DensityDefinedInRange ==
  /\ \A k \in 1..Len(domain.inputs.Solvent_Type.categories) :
       domain.inputs.Solvent_Type.categories[k] \in DOMAIN solvent_descriptors["density"]
  /\ (fn_call # <<>> /\ fn_call.fn = "calc_rhofact" /\ fn_result # <<>>) =>
       /\ fn_result[1].type # "KeyError"
       /\ solvent_descriptors["density"][fn_call.solvent_type] >= 700
       /\ solvent_descriptors["density"][fn_call.solvent_type] <= 1100

\* calc_rhofact has been called for the densest solvent, at 60 degrees
C13_Witness ==
  /\ fn_call # <<>> /\ fn_call.fn = "calc_rhofact" /\ fn_result # <<>>
  /\ fn_call.solvent_type = "Dioxane"
  /\ fn_call.Tfact = 1000
  /\ fn_result[1].type = "ndarray"
  /\ fn_result[1].value = ((1500 - 1030) * 1500) \div 2000

\* the plotting calls of the BNH notebook, in the order of its cells
BnhAllPlots == <<"plot_objective_plotly c1", "plot_objective_plotly c2", "plt.show">>

\* the runs of the BNH notebook, in the order of its cells
BnhAllRuns == <<"random_results", "results", "c_results">>

\* C14, as stated: the BNH notebook makes a plotting call only when
\* SMOKE_TEST is unset, and makes none when it is set to a non-empty value;
\* whatever SMOKE_TEST is, the finished notebook has made all three runs.
C14_PlotsOnlyWhenUnset ==
  /\ SmokeSet => bnh_plots = <<>>
  /\ bnh_plots # <<>> => SmokeUnset
  /\ bnh_pc = "end" =>
       [k \in 1..Len(bnh_runs) |-> bnh_runs[k].result] = BnhAllRuns

\* C14, amended: the BNH notebook makes no plotting call when SMOKE_TEST is
\* set to a non-empty value, and makes all three (both plot_objective_plotly
\* calls, then the matplotlib comparison) when SMOKE_TEST is unset or set to
\* the empty string; in every case the finished notebook has made all three
\* runs, each completed.
C14_PlotsOnlyWithoutSmoke ==
  /\ SmokeSet => bnh_plots = <<>>
  /\ bnh_plots # <<>> => (SmokeUnset \/ environ = <<"">>)
  /\ (bnh_pc = "end" /\ ~SmokeSet) => bnh_plots = BnhAllPlots
  /\ bnh_pc = "end" =>
       /\ [k \in 1..Len(bnh_runs) |-> bnh_runs[k].result] = BnhAllRuns
       /\ \A k \in 1..Len(bnh_runs) : bnh_runs[k].completed = bnh_runs[k].n_iterations

\* the notebook has finished under SMOKE_TEST = "1": three runs, no plot
C14_Witness ==
  /\ bnh_pc = "end"
  /\ environ = <<"1">>
  /\ Len(bnh_runs) = 3
  /\ bnh_plots = <<>>

(***************************************************************************)
(* The Tests workflow: its triggers and its concurrency group.  A run that *)
(* is triggered while runs of its concurrency group are in progress        *)
(* cancels them when the group has cancel-in-progress: true.               *)
(***************************************************************************)
\* name: Tests
github_workflow == "Tests"

\* cancel-in-progress: true
cancel_in_progress == TRUE

\* the events the repository receives: pushes to a branch, and activity on
\* pull request number n against a base branch
CiBranches == {"main", "dev"}

CiEvents ==
  [event_name : {"push"}, branch : CiBranches]
  \cup [event_name : {"pull_request"}, branch : CiBranches, number : 1..MaxPR]

\* on: push: branches: [main]; pull_request: branches: [main]
Triggers(event) == event.branch = "main"

\* ${{ github.event.pull_request.number }}: the number of the pull request
\* of a pull_request event, the empty string for an event without one
github_event_pull_request_number(event) ==
  IF event.event_name = "pull_request" THEN ToString(event.number) ELSE ""

\* group: ${{ github.workflow }}-pr-${{ github.event.pull_request.number }}
concurrency_group(event) ==
  github_workflow \o "-pr-" \o github_event_pull_request_number(event)

\* an event arrives: if it triggers the workflow a run starts, and the runs
\* of its group still in progress are cancelled
CiTrigger ==
  /\ Len(ci_runs) < MaxRuns
  /\ \E event \in CiEvents :
       /\ Triggers(event)
       /\ LET group == concurrency_group(event)
              new == Len(ci_runs) + 1
              before == [k \in 1..Len(ci_runs) |->
                           IF /\ cancel_in_progress
                              /\ ci_runs[k].status = "in_progress"
                              /\ ci_runs[k].group = group
                           THEN [ci_runs[k] EXCEPT !.status = "cancelled", !.cancelled_by = new]
                           ELSE ci_runs[k]]
          IN  ci_runs' = Append(before, [event |-> event, group |-> group,
                                         status |-> "in_progress", cancelled_by |-> 0])
  /\ UNCHANGED <<environ, rng, fn_vars, sim_vars, nb_vars, bnh_vars>>

\* a run in progress comes to its end
CiFinish ==
  /\ \E k \in 1..Len(ci_runs) :
       /\ ci_runs[k].status = "in_progress"
       /\ ci_runs' = [ci_runs EXCEPT ![k].status = "completed"]
  /\ UNCHANGED <<environ, rng, fn_vars, sim_vars, nb_vars, bnh_vars>>

CiInit ==
  /\ environ = <<>>
  /\ rng = 0
  /\ SimIdle
  /\ NotebookIdle
  /\ BnhIdle
  /\ FnIdle
  /\ CiIdle

CiNext == CiTrigger \/ CiFinish

SpecCI == CiInit /\ [][CiNext]_vars

\* C15: a run of the Tests workflow is cancelled only by a newer run
\* triggered for the same pull-request number: the cancelled run and the
\* run that cancelled it are both runs of pull_request events and carry
\* the same number; two pushes to main, or runs of two different pull
\* requests, never cancel one another.
C15_CancelOnlySamePR ==
  \A k \in 1..Len(ci_runs) :
    ci_runs[k].cancelled_by # 0 =>
      LET old == ci_runs[k].event
          newer == ci_runs[ci_runs[k].cancelled_by].event
      IN  /\ ci_runs[k].cancelled_by > k
          /\ old.event_name = "pull_request"
          /\ newer.event_name = "pull_request"
          /\ old.number = newer.number

(***************************************************************************)
(* Both notebooks executed in one environment, one after the other: the    *)
(* BNH notebook to its last cell, then the reaction notebook.              *)
(***************************************************************************)
TutorialsInit ==
  /\ environ \in Environments
  /\ rng \in 0..(NSeeds - 1)
  /\ SimIdle
  /\ NotebookIdle
  /\ BnhIdle
  /\ FnIdle
  /\ CiIdle

TutorialsNext ==
  \/ BnhNext
  \/ (bnh_pc = "end" /\ Next)

SpecTutorials == TutorialsInit /\ [][TutorialsNext]_vars

\* the BNH notebook ran in smoke mode: every run with n_iterations = 1, no plot
BnhSmoke ==
  /\ \A k \in 1..Len(bnh_runs) : bnh_runs[k].n_iterations = 1
  /\ bnh_plots = <<>>

\* the BNH notebook ran in full: every run with n_iterations = 50, every plot
BnhFull ==
  /\ \A k \in 1..Len(bnh_runs) : bnh_runs[k].n_iterations = 50
  /\ bnh_plots = BnhAllPlots

\* C16: for every state of the environment variable SMOKE_TEST (unset,
\* empty, non-empty) both notebooks read the flag to the same truth value,
\* and the reaction notebook skips its optimization loop exactly when the
\* BNH notebook has used n_iterations = 1 and skipped its plots: it is
\* inside the loop body only after a full BNH notebook, and it is past the
\* loop cell with the body never entered only after a smoke BNH notebook.
C16_SameInterpretation ==
  /\ (pc # "c1" /\ bnh_pc # "c1") => (bool(SMOKE_TEST) <=> bool(bnh_SMOKE_TEST))
  /\ pc \in LoopBody => (BnhFull /\ ~BnhSmoke)
  /\ pc \in {"c44", "c45", "end"} =>
       /\ (i = 0 /\ LoopLog = <<>>) <=> BnhSmoke
       /\ (i > 0 /\ LoopLog # <<>>) <=> BnhFull

\* SMOKE_TEST set to the empty string: the BNH notebook has run in full and
\* the reaction notebook has gone through its loop to its last cell
C16_Witness ==
  /\ environ = <<"">>
  /\ bnh_pc = "end"
  /\ BnhFull
  /\ pc = "end"
  /\ i > experimental_budget
  /\ LoopLog # <<>>

\* C17: the table returned by create_candidates(domain, nsamples) has
\* exactly nsamples rows, and every row lies inside the domain: Temperature
\* within the bounds of the Temperature input, Solvent Volume within the
\* bounds of the Solvent Volume input, Solvent Type one of the categories
\* of the Solvent Type input, and no column besides these three (no Yield,
\* no valid_Yield).
C17_CandidatesInDomain ==
  /\ Len(sim_candidates) = sim_nsamples
  /\ \A j \in 1..Len(sim_candidates) :
       LET row == sim_candidates[j]
           Tf == domain.inputs.Temperature
           Vf == domain.inputs.Solvent_Volume
           typef == domain.inputs.Solvent_Type
       IN  /\ DOMAIN row = {"Temperature", "Solvent_Volume", "Solvent_Type"}
           /\ row.Temperature >= Tf.lower_bound
           /\ row.Temperature <= Tf.upper_bound
           /\ row.Solvent_Volume >= Vf.lower_bound
           /\ row.Solvent_Volume <= Vf.upper_bound
           /\ \E k \in 1..Len(typef.categories) : row.Solvent_Type = typef.categories[k]

\* create_candidates has returned MaxRows rows, the last category among them
C17_Witness ==
  /\ sim_nsamples = MaxRows
  /\ Len(sim_candidates) = MaxRows
  /\ \E j \in 1..Len(sim_candidates) : sim_candidates[j].Solvent_Type = "Dioxane"
  /\ \E j \in 1..Len(sim_candidates) : sim_candidates[j].Temperature > 0

====
